---- MODULE Spec2Model ----
(***************************************************************************)
(* Model of include/muli/error.hxx: the ContractViolation exception and    *)
(* the macros muli_precondition, muli_assert, muli_postcondition,          *)
(* muli_invariant and muli_fail.                                           *)
(*                                                                         *)
(* A text is a sequence of characters (one-character strings).  A call of  *)
(* a macro is modelled as the C++ abstract machine runs it: the macro is   *)
(* expanded for the branch the preprocessor selects, the operands of the   *)
(* resulting function call are evaluated (in either order), the function   *)
(* body tests the predicate, declares its stream, inserts into it and      *)
(* throws.  Each thread runs its calls on its own stack.                   *)
(***************************************************************************)
EXTENDS Integers, Sequences, FiniteSets, TLC

\* ---------------------------------------------------------------- bounds
\* longest message text
MaxLen == 2
\* largest __LINE__ of a call site (sites use MaxLine-2 .. MaxLine)
MaxLine == 11
\* number of threads of the concurrent specification
NumThreads == 2

\* ------------------------------------------------------------ characters
NL == "\n"
NUL == "NUL"
Printable == {"a", NL}
Alphabet == Printable \cup {NUL}
Digits == <<"0", "1", "2", "3", "4", "5", "6", "7", "8", "9">>

SeqsUpTo(S, n) == UNION {[1..k -> S] : k \in 0..n}

PreconditionPrefix ==
    <<"P", "r", "e", "c", "o", "n", "d", "i", "t", "i", "o", "n", " ", "v", "i", "o", "l", "a", "t", "i", "o", "n", "!">>
PostconditionPrefix ==
    <<"P", "o", "s", "t", "c", "o", "n", "d", "i", "t", "i", "o", "n", " ", "v", "i", "o", "l", "a", "t", "i", "o", "n", "!">>
InvariantPrefix ==
    <<"I", "n", "v", "a", "r", "i", "a", "n", "t", " ", "v", "i", "o", "l", "a", "t", "i", "o", "n", "!">>

\* ------------------------------------------------------------ call sites
\* the MESSAGE operand of a macro: a string literal (char const *, no
\* embedded NUL), a std::string (any characters) or a null char const *
Messages ==
    {[kind |-> "literal", text |-> x] : x \in SeqsUpTo(Printable, MaxLen)}
    \cup {[kind |-> "string", text |-> x] : x \in SeqsUpTo(Alphabet, MaxLen)}
    \cup {[kind |-> "null", text |-> <<>>]}

\* __FILE__ and __LINE__ of the call site
Files == {<<"t", ".", "x">>, <<"a", "/", "b">>}
Lines == (MaxLine - 2)..MaxLine

ContractMacros == {"muli_precondition", "muli_assert", "muli_postcondition", "muli_invariant"}

\* muli_fail has no PREDICATE operand; its P field is fixed and unused
Calls ==
    {[prim |-> m, P |-> p, msg |-> g, file |-> f, line |-> l] :
        m \in ContractMacros, p \in BOOLEAN, g \in Messages, f \in Files, l \in Lines}
    \cup {[prim |-> "muli_fail", P |-> FALSE, msg |-> g, file |-> f, line |-> l] :
        g \in Messages, f \in Files, l \in Lines}

\* the calls of the concurrent specification
ConcCalls ==
    {c \in Calls : /\ c.msg = [kind |-> "string", text |-> <<"a">>]
                   /\ c.file = <<"t", ".", "x">>
                   /\ c.line = MaxLine}

NoCall == [prim |-> "none", P |-> TRUE, msg |-> [kind |-> "null", text |-> <<>>],
           file |-> <<>>, line |-> 0]

\* ---------------------------------------------------- preprocessor branch
\* line 151 (#ifndef NDEBUG) is commented out; line 153 reads #if 1
SelectedBranch(nd) == "checked"

\* the macro parameters that occur in the expansion of a macro, each
\* occurrence being one operand expression of the expanded statement
MacroOperandsPredicateTwice(prim, branch) ==
    IF branch = "checked"
    THEN IF prim = "muli_fail" THEN <<"MESSAGE">> ELSE <<"PREDICATE", "PREDICATE", "MESSAGE">>
    ELSE IF prim = "muli_assert" THEN <<>>
         ELSE IF prim = "muli_fail" THEN <<"MESSAGE">> ELSE <<"PREDICATE", "MESSAGE">>

MacroOperandsMessageTwice(prim, branch) ==
    IF branch = "checked"
    THEN IF prim = "muli_fail" THEN <<"MESSAGE">> ELSE <<"PREDICATE", "MESSAGE", "MESSAGE">>
    ELSE IF prim = "muli_assert" THEN <<>>
         ELSE IF prim = "muli_fail" THEN <<"MESSAGE">> ELSE <<"PREDICATE", "MESSAGE">>

MacroOperands(prim, branch) ==
    IF branch = "checked"
    THEN IF prim = "muli_fail" THEN <<"MESSAGE">> ELSE <<"PREDICATE", "MESSAGE">>
    ELSE IF prim = "muli_assert" THEN <<>>
         ELSE IF prim = "muli_fail" THEN <<"MESSAGE">> ELSE <<"PREDICATE", "MESSAGE">>

\* the prefix literal in the expansion (muli_assert expands to
\* muli_precondition)
MacroPrefix(prim) ==
    CASE prim \in {"muli_precondition", "muli_assert"} -> PreconditionPrefix
      [] prim = "muli_postcondition" -> PostconditionPrefix
      [] prim = "muli_invariant" -> InvariantPrefix
      [] OTHER -> <<>>

\* the statement a macro expands to: the function called (fn = "none": the
\* macro expands to nothing), whether __FILE__, __LINE__ are passed
Expansion(prim, branch) ==
    [fn |-> IF prim = "muli_fail"
            THEN (IF branch = "checked" THEN "throw_runtime_error" ELSE "std::runtime_error")
            ELSE IF branch # "checked" /\ prim = "muli_assert" THEN "none"
                 ELSE "throw_contract_error",
     prefix |-> MacroPrefix(prim),
     operands |-> MacroOperands(prim, branch),
     loc |-> (branch = "checked")]

\* ------------------------------------------------------- std::ostringstream
\* a stream is its buffer and its state; a stream whose badbit is set
\* ignores insertions
EmptyStream == [buf |-> <<>>, state |-> "good"]

\* operator<<(std::string const &) and character insertion
InsertChars(st, chars) ==
    IF st.state = "good" THEN [st EXCEPT !.buf = @ \o chars] ELSE st

\* the characters a char const * denotes: up to the first NUL
RECURSIVE CStr(_)
CStr(text) ==
    IF text = <<>> \/ Head(text) = NUL THEN <<>>
    ELSE <<Head(text)>> \o CStr(Tail(text))

\* std::string::c_str(): pointer to the characters of the string
c_str(text) == [null |-> FALSE, chars |-> text]

\* the pointer a MESSAGE operand of type char const * evaluates to
CharPtr(msg) == [null |-> (msg.kind = "null"), chars |-> msg.text]

\* inserting a null char const * is undefined: the library either sets
\* badbit and inserts nothing, or reads through the pointer and crashes
NullInsertBehaviours == {"badbit", "crash"}

\* operator<<(char const *)
InsertCString(st, ptr, ub) ==
    IF st.state # "good" THEN st
    ELSE IF ptr.null
         THEN [st EXCEPT !.state = IF ub = "crash" THEN "crashed" ELSE "bad"]
         ELSE InsertChars(st, CStr(ptr.chars))

\* operator<<(int), for the positive values __LINE__ takes
RECURSIVE DecimalReversed(_)
DecimalReversed(n) ==
    IF n < 10 THEN <<Digits[n + 1]>>
    ELSE <<Digits[(n % 10) + 1]>> \o DecimalReversed(n \div 10)

RECURSIVE Decimal(_)
Decimal(n) ==
    IF n < 10 THEN <<Digits[n + 1]>>
    ELSE Decimal(n \div 10) \o <<Digits[(n % 10) + 1]>>

InsertInt(st, n) == InsertChars(st, Decimal(n))

\* ------------------------------------------------------ ContractViolation
\* createMessage(prefix, message): the insertions into s
createMessage2(st, prefix, message, ub) ==
    InsertChars(InsertCString(InsertChars(InsertChars(InsertChars(st,
        <<NL>>), prefix), <<NL>>), message, ub), <<NL>>)

\* createMessage(prefix, message, file, line): the insertions into s
createMessage4NoLocation(st, prefix, message, file, line, ub) ==
    createMessage2(st, prefix, message, ub)

createMessage4(st, prefix, message, file, line, ub) ==
    InsertChars(InsertInt(InsertChars(InsertChars(InsertChars(
        InsertCString(InsertChars(InsertChars(InsertChars(st,
            <<NL>>), prefix), <<NL>>), message, ub),
        <<NL, "(">>), file), <<":">>), line), <<")", NL>>)

\* what a thrown exception carries, or the crash of the process
Returned == [status |-> "returned", kind |-> "none", what |-> <<>>]
NoOutcome == [status |-> "none", kind |-> "none", what |-> <<>>]
Thrown(kind, st) ==
    IF st.state = "crashed"
    THEN [status |-> "crashed", kind |-> "none", what |-> <<>>]
    ELSE [status |-> "raised", kind |-> kind, what |-> st.buf]

\* `throw muli::ContractViolation(...)`: the exception carries s.str()
ThrowContractViolation(st) == Thrown("ContractViolation", st)

\* `throw std::runtime_error(what.str())`
ThrowStdRuntimeErrorAsContract(st) == Thrown("ContractViolation", st)

ThrowStdRuntimeError(st) == Thrown("runtime_error", st)

\* throw muli::ContractViolation(prefix, message, file, line), the
\* char const * overload; without location the two-argument constructor
throw_contract_error(st, prefix, message, file, line, loc, ub) ==
    IF loc THEN createMessage4(st, prefix, CharPtr(message), file, line, ub)
    ELSE createMessage2(st, prefix, CharPtr(message), ub)

\* the std::string overload: ContractViolation(prefix, message.c_str(), ..)
throw_contract_error_string(st, prefix, message, file, line, loc, ub) ==
    IF loc THEN createMessage4(st, prefix, c_str(message.text), file, line, ub)
    ELSE createMessage2(st, prefix, c_str(message.text), ub)

\* throw_runtime_error(char const * message, file, line): insertions
throw_runtime_error(st, message, file, line, ub) ==
    InsertChars(InsertInt(InsertChars(InsertChars(InsertChars(
        InsertCString(InsertChars(st, <<NL>>), CharPtr(message), ub),
        <<NL, "(">>), file), <<":">>), line), <<")", NL>>)

\* throw_runtime_error(std::string message, file, line): insertions
throw_runtime_error_string_verbatim(st, message, file, line, ub) ==
    InsertChars(st, message.text)

throw_runtime_error_string_noloc(st, message, file, line, ub) ==
    InsertChars(InsertChars(InsertChars(st, <<NL>>), message.text), <<NL>>)

throw_runtime_error_string(st, message, file, line, ub) ==
    InsertChars(InsertInt(InsertChars(InsertChars(InsertChars(
        InsertChars(InsertChars(st, <<NL>>), message.text),
        <<NL, "(">>), file), <<":">>), line), <<")", NL>>)

\* throw std::runtime_error(MESSAGE), the #else branch of muli_fail
std_runtime_error(st, message, ub) ==
    IF message.kind = "string" THEN InsertChars(st, message.text)
    ELSE InsertCString(st, CharPtr(message), ub)

\* overload resolution on the type of the MESSAGE operand
ContractErrorStream(st, e, c, ub) ==
    IF c.msg.kind = "string"
    THEN throw_contract_error_string(st, e.prefix, c.msg, c.file, c.line, e.loc, ub)
    ELSE throw_contract_error(st, e.prefix, c.msg, c.file, c.line, e.loc, ub)

RuntimeErrorStream(st, e, c, ub) ==
    IF e.fn = "std::runtime_error" THEN std_runtime_error(st, c.msg, ub)
    ELSE IF c.msg.kind = "string"
         THEN throw_runtime_error_string(st, c.msg, c.file, c.line, ub)
         ELSE throw_runtime_error(st, c.msg, c.file, c.line, ub)

\* a call run alone, from the expansion to the return or the throw
IsolatedOutcome(c, nd, ub) ==
    LET e == Expansion(c.prim, SelectedBranch(nd)) IN
    IF e.fn = "none" THEN Returned
    ELSE IF e.fn = "throw_contract_error"
         THEN IF c.P THEN Returned
              ELSE ThrowContractViolation(ContractErrorStream(EmptyStream, e, c, ub))
         ELSE ThrowStdRuntimeError(RuntimeErrorStream(EmptyStream, e, c, ub))

\* ------------------------------------------------------------------ state
VARIABLES
    ndebug,     \* whether the build defines NDEBUG
    pc,         \* per thread: "idle", "operands", "createMessage", "what", "done"
    call,       \* per thread: the macro call in progress
    pending,    \* per thread: operands of the expansion not yet evaluated
    pEvals,     \* per thread: evaluations of PREDICATE in this call
    mEvals,     \* per thread: evaluations of MESSAGE in this call
    s,          \* the std::ostringstream of each function invocation
    outcome     \* per thread: how the call ended

vars == <<ndebug, pc, call, pending, pEvals, mEvals, s, outcome>>

Threads == DOMAIN pc

\* `std::ostringstream s;` is an automatic variable: one per invocation
StreamSlotStatic(t) == 1

StreamSlot(t) == t

\* a crash ends the process
Running == \A t \in Threads : outcome[t].status # "crashed"

InitThreads(T) ==
    /\ ndebug \in BOOLEAN
    /\ pc = [t \in T |-> "idle"]
    /\ call = [t \in T |-> NoCall]
    /\ pending = [t \in T |-> <<>>]
    /\ pEvals = [t \in T |-> 0]
    /\ mEvals = [t \in T |-> 0]
    /\ s = [t \in T |-> EmptyStream]
    /\ outcome = [t \in T |-> NoOutcome]

Init == InitThreads({1})

InitConc == InitThreads(1..NumThreads)

RemoveAt(q, i) == SubSeq(q, 1, i - 1) \o SubSeq(q, i + 1, Len(q))

\* the statement of a macro call begins: the expansion of the selected
\* branch fixes the operands to evaluate; an empty expansion is finished
Invoke(t, c) ==
    /\ Running
    /\ pc[t] = "idle"
    /\ LET e == Expansion(c.prim, SelectedBranch(ndebug)) IN
        /\ pending' = [pending EXCEPT ![t] = e.operands]
        /\ pc' = [pc EXCEPT ![t] = IF e.fn = "none" THEN "done" ELSE "operands"]
        /\ outcome' = [outcome EXCEPT ![t] = IF e.fn = "none" THEN Returned ELSE NoOutcome]
    /\ call' = [call EXCEPT ![t] = c]
    /\ pEvals' = [pEvals EXCEPT ![t] = 0]
    /\ mEvals' = [mEvals EXCEPT ![t] = 0]
    /\ UNCHANGED <<ndebug, s>>

\* one occurrence of PREDICATE is evaluated (argument order is unspecified)
EvalPredicate(t) ==
    /\ Running
    /\ pc[t] = "operands"
    /\ \E i \in 1..Len(pending[t]) :
        /\ pending[t][i] = "PREDICATE"
        /\ pending' = [pending EXCEPT ![t] = RemoveAt(@, i)]
    /\ pEvals' = [pEvals EXCEPT ![t] = @ + 1]
    /\ UNCHANGED <<ndebug, pc, call, mEvals, s, outcome>>

\* one occurrence of MESSAGE is evaluated
EvalMessage(t) ==
    /\ Running
    /\ pc[t] = "operands"
    /\ \E i \in 1..Len(pending[t]) :
        /\ pending[t][i] = "MESSAGE"
        /\ pending' = [pending EXCEPT ![t] = RemoveAt(@, i)]
    /\ mEvals' = [mEvals EXCEPT ![t] = @ + 1]
    /\ UNCHANGED <<ndebug, pc, call, pEvals, s, outcome>>

\* throw_contract_error is entered: if(!predicate) the exception object is
\* constructed, beginning with createMessage's `std::ostringstream s;`
ThrowContractError(t) ==
    /\ Running
    /\ pc[t] = "operands"
    /\ pending[t] = <<>>
    /\ Expansion(call[t].prim, SelectedBranch(ndebug)).fn = "throw_contract_error"
    /\ IF ~call[t].P
       THEN /\ pc' = [pc EXCEPT ![t] = "createMessage"]
            /\ s' = [s EXCEPT ![StreamSlot(t)] = EmptyStream]
            /\ UNCHANGED outcome
       ELSE /\ pc' = [pc EXCEPT ![t] = "done"]
            /\ outcome' = [outcome EXCEPT ![t] = Returned]
            /\ UNCHANGED s
    /\ UNCHANGED <<ndebug, call, pending, pEvals, mEvals>>

\* createMessage inserts into s and returns s.str(); the ContractViolation
\* constructed from it is thrown
CreateMessage(t) ==
    /\ Running
    /\ pc[t] = "createMessage"
    /\ \E ub \in NullInsertBehaviours :
        LET c == call[t]
            e == Expansion(c.prim, SelectedBranch(ndebug))
            st == ContractErrorStream(s[StreamSlot(t)], e, c, ub)
        IN  /\ s' = [s EXCEPT ![StreamSlot(t)] = st]
            /\ outcome' = [outcome EXCEPT ![t] = ThrowContractViolation(st)]
    /\ pc' = [pc EXCEPT ![t] = "done"]
    /\ UNCHANGED <<ndebug, call, pending, pEvals, mEvals>>

\* throw_runtime_error is entered: `std::ostringstream what;`
\* (the #else branch throws std::runtime_error(MESSAGE) directly)
ThrowRuntimeError(t) ==
    /\ Running
    /\ pc[t] = "operands"
    /\ pending[t] = <<>>
    /\ Expansion(call[t].prim, SelectedBranch(ndebug)).fn
         \in {"throw_runtime_error", "std::runtime_error"}
    /\ pc' = [pc EXCEPT ![t] = "what"]
    /\ s' = [s EXCEPT ![StreamSlot(t)] = EmptyStream]
    /\ UNCHANGED <<ndebug, call, pending, pEvals, mEvals, outcome>>

\* the insertions into what, and throw std::runtime_error(what.str())
ThrowRuntimeErrorWhat(t) ==
    /\ Running
    /\ pc[t] = "what"
    /\ \E ub \in NullInsertBehaviours :
        LET c == call[t]
            e == Expansion(c.prim, SelectedBranch(ndebug))
            st == RuntimeErrorStream(s[StreamSlot(t)], e, c, ub)
        IN  /\ s' = [s EXCEPT ![StreamSlot(t)] = st]
            /\ outcome' = [outcome EXCEPT ![t] = ThrowStdRuntimeError(st)]
    /\ pc' = [pc EXCEPT ![t] = "done"]
    /\ UNCHANGED <<ndebug, call, pending, pEvals, mEvals>>

\* the statement is over (normally, or its exception was handled by the
\* caller); the function's frame and its stream are gone
Finish(t) ==
    /\ Running
    /\ pc[t] = "done"
    /\ pc' = [pc EXCEPT ![t] = "idle"]
    /\ call' = [call EXCEPT ![t] = NoCall]
    /\ pending' = [pending EXCEPT ![t] = <<>>]
    /\ pEvals' = [pEvals EXCEPT ![t] = 0]
    /\ mEvals' = [mEvals EXCEPT ![t] = 0]
    /\ s' = [s EXCEPT ![StreamSlot(t)] = EmptyStream]
    /\ outcome' = [outcome EXCEPT ![t] = NoOutcome]
    /\ UNCHANGED ndebug

Next ==
    \/ \E t \in Threads, c \in Calls : Invoke(t, c)
    \/ \E t \in Threads : EvalPredicate(t)
    \/ \E t \in Threads : EvalMessage(t)
    \/ \E t \in Threads : ThrowContractError(t)
    \/ \E t \in Threads : CreateMessage(t)
    \/ \E t \in Threads : ThrowRuntimeError(t)
    \/ \E t \in Threads : ThrowRuntimeErrorWhat(t)
    \/ \E t \in Threads : Finish(t)

NextConc ==
    \/ \E t \in Threads, c \in ConcCalls : Invoke(t, c)
    \/ \E t \in Threads : EvalPredicate(t)
    \/ \E t \in Threads : EvalMessage(t)
    \/ \E t \in Threads : ThrowContractError(t)
    \/ \E t \in Threads : CreateMessage(t)
    \/ \E t \in Threads : ThrowRuntimeError(t)
    \/ \E t \in Threads : ThrowRuntimeErrorWhat(t)
    \/ \E t \in Threads : Finish(t)

Spec == Init /\ [][Next]_vars

SpecConc == InitConc /\ [][NextConc]_vars

TypeOK ==
    /\ ndebug \in BOOLEAN
    /\ \A t \in Threads :
        /\ pc[t] \in {"idle", "operands", "createMessage", "what", "done"}
        /\ pEvals[t] \in 0..2
        /\ mEvals[t] \in 0..2
        /\ outcome[t].status \in {"none", "returned", "raised", "crashed"}

\* ----------------------------------------------------------- properties
Done(t) == pc[t] = "done"
Raised(t) == Done(t) /\ outcome[t].status = "raised"

\* a message of the documented kind: present, and free of NUL
IsText(m) == m.kind # "null" /\ \A i \in 1..Len(m.text) : m.text[i] # NUL

RECURSIVE DigitsValue(_)
DigitsValue(d) ==
    IF d = <<>> THEN 0
    ELSE 10 * DigitsValue(SubSeq(d, 1, Len(d) - 1))
         + (CHOOSE k \in 0..9 : Digits[k + 1] = d[Len(d)])

\* d is the decimal numeral of n
IsDecimalOf(d, n) ==
    /\ Len(d) > 0
    /\ \A i \in 1..Len(d) : \E k \in 1..10 : Digits[k] = d[i]
    /\ Len(d) > 1 => d[1] # "0"
    /\ DigitsValue(d) = n

\* r is "\n(" + file + ":" + line + ")\n"
IsLocation(r, file, line) ==
    LET h == <<NL, "(">> \o file \o <<":">> IN
    /\ Len(r) >= Len(h) + 3
    /\ SubSeq(r, 1, Len(h)) = h
    /\ SubSeq(r, Len(r) - 1, Len(r)) = <<")", NL>>
    /\ IsDecimalOf(SubSeq(r, Len(h) + 1, Len(r) - 2), line)

\* w is head + "\n(" + file + ":" + line + ")\n"
HasLocatedForm(w, head, file, line) ==
    /\ Len(w) >= Len(head)
    /\ SubSeq(w, 1, Len(head)) = head
    /\ IsLocation(SubSeq(w, Len(head) + 1, Len(w)), file, line)

EndsWithLocation(w, file, line) ==
    \E i \in 1..Len(w) : IsLocation(SubSeq(w, i, Len(w)), file, line)

Contains(w, p) ==
    \E i \in 1..(Len(w) - Len(p) + 1) : SubSeq(w, i, i + Len(p) - 1) = p

PrefixOf(prim) ==
    IF prim = "muli_postcondition" THEN PostconditionPrefix
    ELSE IF prim = "muli_invariant" THEN InvariantPrefix
    ELSE PreconditionPrefix

\* C1: in a build without NDEBUG, muli_precondition, muli_postcondition and
\* muli_invariant throw a ContractViolation exactly when the predicate is
\* false, what() is "\n" + prefix + "\n" + M + "\n(" + file + ":" + line +
\* ")\n" with the call site's file and line, and a true predicate returns.
C1_CheckedContractRendering ==
    \A t \in Threads :
        (/\ Done(t)
         /\ ~ndebug
         /\ call[t].prim \in {"muli_precondition", "muli_postcondition", "muli_invariant"}
         /\ IsText(call[t].msg))
        => /\ (outcome[t].status = "raised") <=> ~call[t].P
           /\ call[t].P => outcome[t] = Returned
           /\ ~call[t].P =>
                /\ outcome[t].kind = "ContractViolation"
                /\ HasLocatedForm(outcome[t].what,
                       <<NL>> \o PrefixOf(call[t].prim) \o <<NL>> \o call[t].msg.text,
                       call[t].file, call[t].line)

C1_Witness ==
    \E t \in Threads :
        /\ Raised(t)
        /\ ~ndebug
        /\ call[t].prim = "muli_postcondition"
        /\ call[t].msg.text = <<"a", NL>>
        /\ call[t].line = 10

C3_MessageNotEvaluatedOnSuccess ==
    \A t \in Threads :
        (/\ Done(t)
         /\ ~ndebug
         /\ call[t].prim \in ContractMacros
         /\ call[t].P
         /\ IsText(call[t].msg))
        => mEvals[t] = 0

\* C3 amended: in a build without NDEBUG, every call of one of the four
\* predicate macros evaluates MESSAGE exactly once, whether the predicate is
\* true or false; when the predicate is true the message is not formatted:
\* the call returns and no stream was written.
C3_MessageEvaluatedOnceFormattedOnFailure ==
    \A t \in Threads :
        (Done(t) /\ ~ndebug /\ call[t].prim \in ContractMacros)
        => /\ mEvals[t] = 1
           /\ call[t].P => (outcome[t] = Returned /\ s[t] = EmptyStream)

C3_Witness ==
    \E t \in Threads :
        /\ Done(t)
        /\ ~ndebug
        /\ call[t].prim = "muli_invariant"
        /\ call[t].P
        /\ call[t].msg.kind = "string"
        /\ mEvals[t] = 1
        /\ outcome[t] = Returned

\* C4: a call of one of the four predicate macros that is not elided
\* (muli_assert under NDEBUG is the elided one) evaluates PREDICATE exactly
\* once, whether it returns or throws.
C4_PredicateEvaluatedOnce ==
    \A t \in Threads :
        /\ pEvals[t] <= 1
        /\ (/\ Done(t)
            /\ call[t].prim \in ContractMacros
            /\ ~(ndebug /\ call[t].prim = "muli_assert"))
           => pEvals[t] = 1

C4_Witness ==
    \E t \in Threads :
        /\ Raised(t)
        /\ call[t].prim = "muli_precondition"
        /\ pEvals[t] = 1

\* C5: muli_assert behaves as muli_precondition in a build without NDEBUG,
\* and in a build with NDEBUG it evaluates neither PREDICATE nor MESSAGE and
\* never throws.
C5_AssertElidedUnderNDEBUG ==
    \A t \in Threads :
        (Done(t) /\ call[t].prim = "muli_assert" /\ IsText(call[t].msg))
        => IF ndebug
           THEN pEvals[t] = 0 /\ mEvals[t] = 0 /\ outcome[t] = Returned
           ELSE \E ub \in NullInsertBehaviours :
                    outcome[t] = IsolatedOutcome(
                        [call[t] EXCEPT !.prim = "muli_precondition"], ndebug, ub)

\* C6: in a build with NDEBUG, the three contract macros still throw a
\* ContractViolation on a false predicate and muli_fail still throws, with
\* what() "\n" + prefix + "\n" + M + "\n" and M respectively; what() ends
\* with a "(file:line)" location if and only if NDEBUG is not defined.
C6_NoLocationUnderNDEBUG ==
    \A t \in Threads :
        (Done(t) /\ IsText(call[t].msg))
        => /\ (/\ ndebug
               /\ call[t].prim \in {"muli_precondition", "muli_postcondition", "muli_invariant"}
               /\ ~call[t].P)
              => /\ outcome[t].status = "raised"
                 /\ outcome[t].kind = "ContractViolation"
                 /\ outcome[t].what =
                        <<NL>> \o PrefixOf(call[t].prim) \o <<NL>> \o call[t].msg.text \o <<NL>>
           /\ (ndebug /\ call[t].prim = "muli_fail")
              => /\ outcome[t].status = "raised"
                 /\ outcome[t].what = call[t].msg.text
           /\ outcome[t].status = "raised"
              => (EndsWithLocation(outcome[t].what, call[t].file, call[t].line) <=> ~ndebug)

\* C7: what() of every exception thrown by any of the five macros, for
\* every message text including the empty one, begins with a newline and
\* ends with a newline.
C7_RenderedNewlineDelimited ==
    \A t \in Threads :
        (Raised(t) /\ call[t].msg.kind # "null")
        => /\ Len(outcome[t].what) >= 1
           /\ outcome[t].what[1] = NL
           /\ outcome[t].what[Len(outcome[t].what)] = NL

C7_Witness ==
    \E t \in Threads :
        /\ Raised(t)
        /\ call[t].prim = "muli_fail"
        /\ call[t].msg = [kind |-> "string", text |-> <<>>]

\* C8: with any number of threads calling the macros concurrently, in any
\* interleaving and after any earlier calls, a finished call's outcome
\* (return or throw, exception type, what()) is the outcome of that call
\* run alone on its own predicate, message and call site.
C8_OutcomeAsInIsolation ==
    \A t \in Threads :
        (Done(t) /\ call[t].msg.kind # "null")
        => outcome[t] = IsolatedOutcome(call[t], ndebug, "badbit")

\* two threads are inside the throwing functions at once, one of them
\* having written its stream
C8_Witness ==
    \E t1, t2 \in Threads :
        /\ t1 # t2
        /\ Raised(t1)
        /\ pc[t2] \in {"createMessage", "what"}
        /\ call[t1].prim # call[t2].prim

\* C9 as stated: a ContractViolation constructed from a null or an empty
\* message is constructed without failing, and what() has the full form:
\* "\n" + prefix + "\n" + (nothing) + "\n(" + file + ":" + line + ")\n".
C9_NullOrEmptyMessageFullForm ==
    \A t \in Threads :
        (/\ Done(t)
         /\ ~ndebug
         /\ call[t].prim \in ContractMacros
         /\ ~call[t].P
         /\ call[t].msg.text = <<>>)
        => /\ outcome[t].status = "raised"
           /\ HasLocatedForm(outcome[t].what,
                  <<NL>> \o PrefixOf(call[t].prim) \o <<NL>>,
                  call[t].file, call[t].line)

\* C9 amended: a ContractViolation constructed from an empty (non-null)
\* message is constructed and what() has the full form: "\n" + prefix +
\* "\n" + "\n(" + file + ":" + line + ")\n"; a null message is outside the
\* contract (inserting it into the stream is undefined).
C9_EmptyMessageFullForm ==
    \A t \in Threads :
        (/\ Done(t)
         /\ ~ndebug
         /\ call[t].prim \in ContractMacros
         /\ ~call[t].P
         /\ call[t].msg.kind # "null"
         /\ call[t].msg.text = <<>>)
        => /\ outcome[t].status = "raised"
           /\ HasLocatedForm(outcome[t].what,
                  <<NL>> \o PrefixOf(call[t].prim) \o <<NL>>,
                  call[t].file, call[t].line)

C9_Witness ==
    \E t \in Threads :
        /\ Raised(t)
        /\ ~ndebug
        /\ call[t].prim = "muli_assert"
        /\ call[t].msg = [kind |-> "literal", text |-> <<>>]

\* C10: a call whose message is a std::string has the outcome (return or
\* throw, exception type, what()) of the same call with the same text given
\* as a string literal.
C10_LiteralAndStringRenderAlike ==
    \A t \in Threads :
        (Done(t) /\ call[t].msg.kind = "string" /\ IsText(call[t].msg))
        => outcome[t] = IsolatedOutcome(
               [call[t] EXCEPT !.msg = [kind |-> "literal", text |-> call[t].msg.text]],
               ndebug, "badbit")

C10_Witness ==
    \E t \in Threads :
        /\ Raised(t)
        /\ call[t].prim = "muli_fail"
        /\ call[t].msg = [kind |-> "string", text |-> <<NL, "a">>]
====
